---- MODULE Spec2Model ----
(***************************************************************************)
(* Sheafy (pluveto/sheafy-vscode-ext): the export pipeline of              *)
(* fileProcessor.ts (traversal, ignore filtering, templating, destination  *)
(* dispatch, cooperative cancellation) driven by the two export commands   *)
(* of the extension.                                                       *)
(*                                                                         *)
(* Paths are sequences of names relative to the workspace root             *)
(* (config.basePath), so <<>> is the root and <<"sub","b.ts">> is          *)
(* sub/b.ts.  Text (file contents, templates, the bundle) is a sequence of *)
(* tokens; a token is an indivisible piece of text.                        *)
(*                                                                         *)
(* An action is one run of the program between two awaits: the completion  *)
(* of the awaited I/O and the synchronous code after it.  A cancellation   *)
(* request can only arrive while an I/O is in flight, that is, between two *)
(* such actions of the awaiting kind.                                      *)
(*                                                                         *)
(* Three specifications: Spec, the export commands run one after the       *)
(* other; InitConfigSpec, invocations of initConfigCommand interleaved     *)
(* with each other and with external changes of sheafy.toml; RenderSpec,   *)
(* the rendering of one file for every template, path and content.         *)
(***************************************************************************)
EXTENDS Naturals, Sequences, FiniteSets, TLC

\* Number of commands run one after the other on the same workspace.
MaxRuns == 2

-----------------------------------------------------------------------------
(* Sequences *)

Last(s) == s[Len(s)]

Front(s) == SubSeq(s, 1, Len(s) - 1)

IsPrefix(p, s) == Len(p) <= Len(s) /\ SubSeq(s, 1, Len(p)) = p

RECURSIVE Flatten(_)
Flatten(ss) == IF ss = <<>> THEN <<>> ELSE Head(ss) \o Flatten(Tail(ss))

\* Array.prototype.join: the parts with sep between consecutive parts.
RECURSIVE Join(_, _)
Join(parts, sep) ==
    IF parts = <<>> THEN <<>>
    ELSE IF Len(parts) = 1 THEN parts[1]
    ELSE parts[1] \o sep \o Join(Tail(parts), sep)

Range(s) == {s[i] : i \in 1..Len(s)}

-----------------------------------------------------------------------------
(* Paths *)

basePath == <<>>

\* path.relative(from, to) for a path `to` inside directory `from`.
Relative(from, to) == SubSeq(to, Len(from) + 1, Len(to))

\* The text of a name: one piece, or the pieces of a name that has the
\* text of a placeholder in it.
NameText(name) ==
    IF name = "x.{content}" THEN <<"x.", "{content}">> ELSE <<name>>

\* The text of a relative path: its names separated by "/".
RECURSIVE PathText(_)
PathText(p) ==
    IF p = <<>> THEN <<>>
    ELSE IF Len(p) = 1 THEN NameText(p[1])
    ELSE NameText(p[1]) \o <<"/">> \o PathText(Tail(p))

\* path.extname(name).substring(1).toLowerCase() of the names of the model.
ExtOf(name) ==
    CASE name \in {"a.ts", "b.ts"} -> "ts"
      [] name = "x.js" -> "js"
      [] name = "project_bundle.md" -> "md"
      [] name = "sheafy.toml" -> "toml"
      [] name = "d.zzz" -> "zzz"
      [] name = "x.{content}" -> "{content}"
      [] OTHER -> ""

langMap ==
    [ts |-> "typescript", tsx |-> "typescriptreact",
     js |-> "javascript", jsx |-> "javascriptreact",
     py |-> "python", java |-> "java", cs |-> "csharp",
     cpp |-> "cpp", h |-> "cpp", hpp |-> "cpp", c |-> "c",
     go |-> "go", rb |-> "ruby", php |-> "php",
     html |-> "html", htm |-> "html", css |-> "css",
     scss |-> "scss", sass |-> "sass", less |-> "less",
     json |-> "json", xml |-> "xml", md |-> "markdown",
     sh |-> "shellscript", bash |-> "shellscript", zsh |-> "shellscript",
     yaml |-> "yaml", yml |-> "yaml", toml |-> "toml",
     sql |-> "sql", swift |-> "swift", kt |-> "kotlin",
     rs |-> "rust", lua |-> "lua", pl |-> "perl",
     scala |-> "scala", vb |-> "vb", dart |-> "dart",
     dockerfile |-> "dockerfile", graphql |-> "graphql",
     vue |-> "vue", svelte |-> "svelte"]

getLanguageId(filePath) ==
    LET extension == ExtOf(Last(filePath)) IN
    IF extension \in DOMAIN langMap THEN langMap[extension]
    ELSE IF extension # "" THEN extension
    ELSE "plaintext"

-----------------------------------------------------------------------------
(* The ignore package: gitignore rules.  A rule is                         *)
(* [neg, dirOnly, segs]: "!" prefix, trailing "/", and the pattern split   *)
(* at "/".  A pattern of one segment matches a name at any depth; a        *)
(* pattern with a "/" inside is anchored at the root.                      *)

Rule(neg, dirOnly, segs) == [neg |-> neg, dirOnly |-> dirOnly, segs |-> segs]

\* The rule made by add() from the text of a plain relative path.
PathRule(p) == Rule(FALSE, FALSE, p)

\* One pattern segment against one name; "*" does not cross a "/".
SegMatch(seg, name) ==
    \/ seg = name
    \/ seg = "*"
    \/ seg = "*.ts" /\ ExtOf(name) = "ts"
    \/ seg = "*.md" /\ ExtOf(name) = "md"

\* rule.regex.test(path): path is tested with a trailing "/" when isDir.
RuleMatches(rule, p, isDir) ==
    /\ rule.dirOnly => isDir
    /\ IF Len(rule.segs) = 1
         THEN p # <<>> /\ SegMatch(rule.segs[1], Last(p))
         ELSE /\ Len(p) = Len(rule.segs)
              /\ \A i \in 1..Len(p) : SegMatch(rule.segs[i], p[i])

\* _testOne: the last matching rule decides.
RECURSIVE TestOne(_, _, _, _)
TestOne(rules, p, isDir, ignored) ==
    IF rules = <<>> THEN ignored
    ELSE TestOne(Tail(rules), p, isDir,
                 IF RuleMatches(Head(rules), p, isDir)
                   THEN ~Head(rules).neg ELSE ignored)

\* ignores(path) for the path of a file: an ignored parent directory
\* cannot be re-included; otherwise the path itself is tested.
Ignores(rules, p) ==
    \/ \E k \in 1..(Len(p) - 1) : TestOne(rules, SubSeq(p, 1, k), TRUE, FALSE)
    \/ TestOne(rules, p, FALSE, FALSE)

-----------------------------------------------------------------------------
(* Templating *)

\* A replacement string given to String.prototype.replace: "$&" stands for
\* the matched text and "$$" for "$".
RECURSIVE Expand(_, _)
Expand(value, matched) ==
    IF value = <<>> THEN <<>>
    ELSE (CASE Head(value) = "$&" -> <<matched>>
            [] Head(value) = "$$" -> <<"$">>
            [] OTHER -> <<Head(value)>>) \o Expand(Tail(value), matched)

\* text.replace(/placeholder/g, value)
RECURSIVE ReplaceAll(_, _, _)
ReplaceAll(text, placeholder, value) ==
    IF text = <<>> THEN <<>>
    ELSE (IF Head(text) = placeholder THEN Expand(value, placeholder)
          ELSE <<Head(text)>>) \o ReplaceAll(Tail(text), placeholder, value)

\* The three chained replace calls of exportContent.
Render(template, relPathForTemplate, lang, content) ==
    ReplaceAll(
        ReplaceAll(
            ReplaceAll(template, "{relpath}", PathText(relPathForTemplate)),
            "{lang}", <<lang>>),
        "{content}", content)

\* The inline marker pushed when a file cannot be read.
ErrorMarker(relPathForTemplate, message) ==
    <<"### ">> \o PathText(relPathForTemplate)
        \o <<"\n\n", "--- ERROR: Could not read file: ", message, " ---\n">>

\* fileReadError.message: the message of the error a failed readFile
\* raises.
ReadErrorMessage == "EACCES"

\* The default sheafy.exportFormatTemplate; "[fence]" stands for the three
\* backquotes that open the code block and "[fence']" for the four closing it.
DefaultTemplate ==
    <<"### ", "{relpath}", "\n\n", "[fence]", "{lang}", "\n", "{content}", "\n[fence']\n">>

-----------------------------------------------------------------------------
(* State *)

VARIABLES
    dirs,            \* the directories that exist
    files,           \* the files that exist: path -> content
    unreadable,      \* files whose readFile fails
    unlistable,      \* directories whose readdir fails
    specials,        \* entries that are neither regular files nor directories
    gitignoreRules,  \* the rules written in the root .gitignore
    config,          \* the MergedSheafyConfig of the workspace
    clipboard,       \* the text on the system clipboard
    views,           \* the texts of the editor tabs opened so far
    run,             \* commands started so far
    cmd,             \* the running command: "folder" or "project"
    startPath,       \* exportContent's startPath
    dests,           \* the exportDestinations handed to exportContent
    cancelled,       \* token.isCancellationRequested
    pc,              \* where the command stands
    stack,           \* getAllFilesRecursive: the open frames, innermost last
    pendingDir,      \* the directory whose readdir is in flight
    allFilePaths,    \* arrayOfFiles / allFilePaths
    idx,             \* the file loop's position in allFilePaths
    mainFilter,      \* the rules of mainFilter
    gitignoreFilter, \* [on, rules]: gitignoreFilter, on = FALSE for null
    outputParts,     \* outputParts
    partFile,        \* for each element of outputParts, the file it came from
    finalOutput,     \* finalOutput
    assembled,       \* finalOutput has been computed in this run
    destIdx,         \* the destination loop's position in dests
    results,         \* results
    notes,           \* the notifications shown by this command
    effects,         \* the destination I/O performed by this command
    cancelAt,        \* where the command stood when cancellation came
    prev,            \* the bundle text and files of the previous command
    initPc,          \* initConfigCommand: where each invocation stands
    renderIn,        \* rendering alone: template, file path and content
    renderOut        \* rendering alone: the formattedContent computed

fsVars == <<dirs, files, unreadable, unlistable, specials, gitignoreRules>>
hostVars == <<clipboard, views>>
walkVars == <<stack, pendingDir, allFilePaths>>
renderVars == <<idx, mainFilter, gitignoreFilter, outputParts, partFile>>
sinkVars == <<finalOutput, assembled, destIdx, results>>
sideVars == <<initPc, renderIn, renderOut>>
vars == <<dirs, files, unreadable, unlistable, specials, gitignoreRules, config,
          clipboard, views, run, cmd, startPath, dests, cancelled, pc,
          stack, pendingDir, allFilePaths, idx, mainFilter, gitignoreFilter,
          outputParts, partFile, finalOutput, assembled, destIdx, results,
          notes, effects, cancelAt, prev, initPc, renderIn, renderOut>>

\* The points where the command waits for an I/O to complete.
AwaitPcs ==
    {"loadConfig", "stat", "readdir", "gitignore", "readFile",
     "clipboardWrite", "openDoc", "showDoc", "mkdir", "writeFile"}

\* The I/O of one destination attempt.
SinkPcs == {"clipboardWrite", "openDoc", "showDoc", "mkdir", "writeFile"}

-----------------------------------------------------------------------------
(* The file system *)

\* The order in which readdir lists the names of a directory.
NameOrder ==
    <<".gitignore", "a.ts", "b.ts", "build", "link", "out",
      "project_bundle.md", "sheafy.toml", "sub", "x.js">>

Exists(p) == p \in dirs \/ p \in DOMAIN files \/ p \in specials

\* fsPromises.readdir(d): the names of d's entries, in listing order.
Entries(d) == SelectSeq(NameOrder, LAMBDA n : Exists(d \o <<n>>))

\* fsPromises.mkdir(d, {recursive: true}): d and its missing ancestors.
MkdirP(d) == dirs \cup {SubSeq(d, 1, k) : k \in 0..Len(d)}

\* fsPromises.writeFile(p, text): create or overwrite.
WriteFile(p, text) ==
    [q \in DOMAIN files \cup {p} |-> IF q = p THEN text ELSE files[q]]

-----------------------------------------------------------------------------
(* loadSheafyConfig *)

\* The tomlConfig of a sheafy.toml that is missing, cannot be parsed or has
\* no [sheafy] section: null.
NullToml ==
    [null |-> TRUE, bundle_name |-> "", working_dir |-> <<>>,
     use_gitignore |-> "undefined", ignore_patterns |-> <<>>,
     prologue |-> <<>>, epilogue |-> <<>>]

\* The [sheafy] section of a sheafy.toml.  An absent bundle_name, prologue
\* or epilogue is the empty text, an absent working_dir is ".", and
\* use_gitignore is "true", "false" or, when the key is absent, "undefined".
Toml(working_dir, use_gitignore, ignore_patterns, prologue, epilogue) ==
    [null |-> FALSE, bundle_name |-> "", working_dir |-> working_dir,
     use_gitignore |-> use_gitignore, ignore_patterns |-> ignore_patterns,
     prologue |-> prologue, epilogue |-> epilogue]

\* The sheafy.toml of the workspace root as readFile and parse find it:
\* state is "ok", "ENOENT" (no such file) or "TomlError" (not parseable).
TomlFile(state, sheafy) == [state |-> state, sheafy |-> sheafy]

\* The host settings of the sheafy section.
Settings(respectGitignore, exportDestinations, exportFormatTemplate, relative) ==
    [respectGitignore |-> respectGitignore,
     exportDestinations |-> exportDestinations,
     exportFormatTemplate |-> exportFormatTemplate,
     folderExportPathRelativeToClickedFolder |-> relative]

\* Mutant of EffectiveUseGitignore: either source can switch the flag on.
EffectiveUseGitignoreEither(tomlConfig, vscodeConfig) ==
    vscodeConfig.respectGitignore \/ tomlConfig.use_gitignore = "true"

\* effectiveUseGitignore: the host setting, unless sheafy.toml has the key.
EffectiveUseGitignore(tomlConfig, vscodeConfig) ==
    IF ~tomlConfig.null /\ tomlConfig.use_gitignore # "undefined"
      THEN tomlConfig.use_gitignore = "true"
      ELSE vscodeConfig.respectGitignore

\* The MergedSheafyConfig loadSheafyConfig returns for the sheafy.toml and
\* the host settings it finds.
loadSheafyConfig(file, vscodeConfig) ==
    LET tomlConfig == IF file.state = "ok" THEN file.sheafy ELSE NullToml
    IN  [tomlConfig |-> tomlConfig,
         vscodeSettings |-> vscodeConfig,
         bundle_name |-> IF tomlConfig.bundle_name # ""
                           THEN tomlConfig.bundle_name
                           ELSE "project_bundle.md",
         working_dir |-> basePath \o tomlConfig.working_dir,
         use_gitignore |-> EffectiveUseGitignore(tomlConfig, vscodeConfig),
         ignore_patterns_array |-> tomlConfig.ignore_patterns,
         prologue |-> tomlConfig.prologue,
         epilogue |-> tomlConfig.epilogue,
         exportFormatTemplate |-> vscodeConfig.exportFormatTemplate,
         exportDestinations |->
             IF Len(vscodeConfig.exportDestinations) > 0
               THEN vscodeConfig.exportDestinations
               ELSE <<"clipboard">>,
         folderExportPathRelativeToClickedFolder |->
             vscodeConfig.folderExportPathRelativeToClickedFolder]

-----------------------------------------------------------------------------
(* The configurations and workspaces explored *)

WorkingDirs == {<<>>, <<"out">>}

DestinationLists ==
    {<<"clipboard", "rootDir">>, <<"workingDir", "tempTab">>,
     <<"rootDir", "workingDir", "clipboard">>}

IgnorePatternLists ==
    {<<>>,
     <<Rule(FALSE, FALSE, <<"*.ts">>), Rule(TRUE, FALSE, <<"sub", "b.ts">>)>>,
     <<Rule(TRUE, FALSE, <<"*.md">>)>>,
     <<Rule(TRUE, FALSE, <<"b.ts">>)>>}

\* use_gitignore of sheafy.toml, the host's respectGitignore, and the rules
\* written in .gitignore
GitignoreSetups ==
    {[toml |-> "false", respect |-> TRUE,
      rules |-> <<Rule(FALSE, FALSE, <<"*.ts">>)>>],
     [toml |-> "true", respect |-> FALSE, rules |-> <<>>],
     [toml |-> "undefined", respect |-> TRUE,
      rules |-> <<Rule(FALSE, FALSE, <<"*.ts">>)>>]}

\* exportFormatTemplate, prologue, epilogue and
\* folderExport.pathRelativeToClickedFolder
TextSetups ==
    {[template |-> DefaultTemplate, prologue |-> <<>>, epilogue |-> <<>>,
      relative |-> TRUE],
     [template |-> DefaultTemplate, prologue |-> <<>>, epilogue |-> <<>>,
      relative |-> FALSE],
     [template |-> DefaultTemplate, prologue |-> <<"prologue">>,
      epilogue |-> <<"epilogue">>, relative |-> FALSE],
     [template |-> <<"{content}">>, prologue |-> <<"prologue">>,
      epilogue |-> <<"epilogue">>, relative |-> TRUE]}

\* A workspace without I/O faults and without special entries.
NoFault ==
    [unreadable |-> {}, unlistable |-> {}, specials |-> {}, extra |-> <<>>]

\* The I/O faults and special entries of the workspace: none; an unreadable
\* file; a directory that cannot be listed, with a file listed after it;
\* a symbolic link that is not a regular file and cannot be read.
FaultSetups ==
    {NoFault,
     [NoFault EXCEPT !.unreadable = {<<"sub", "b.ts">>}],
     [NoFault EXCEPT !.unlistable = {<<"sub">>}, !.extra = <<"x.js">>],
     [NoFault EXCEPT !.specials = {<<"sub", "link">>},
                     !.unreadable = {<<"sub", "link">>}]}

\* A workspace and its settings: the sheafy.toml, the host settings, the
\* rules of .gitignore and the I/O faults.
Setup(file, vscodeConfig, rules, fault) ==
    [file |-> file, vscodeConfig |-> vscodeConfig, rules |-> rules,
     fault |-> fault]

\* The workspaces with a sheafy.toml that sets its keys.
TomlSetups ==
    {Setup(TomlFile("ok", Toml(wd, g.toml, ip, t.prologue, t.epilogue)),
           Settings(g.respect, ds, t.template, t.relative), g.rules, f) :
        g \in GitignoreSetups, t \in TextSetups, wd \in WorkingDirs,
        ip \in IgnorePatternLists, ds \in DestinationLists,
        f \in FaultSetups}

\* The workspaces whose sheafy.toml is missing, cannot be parsed, or has no
\* use_gitignore key while the host does not respect .gitignore; the last
\* has no exportDestinations in the host settings.
DefaultingSetups ==
    {Setup(TomlFile(state, NullToml),
           Settings(respect, <<"clipboard", "rootDir">>, DefaultTemplate, FALSE),
           <<Rule(FALSE, FALSE, <<"*.ts">>)>>,
           NoFault) :
        state \in {"ENOENT", "TomlError"}, respect \in BOOLEAN}
    \cup
    {Setup(TomlFile("ok", Toml(<<>>, "undefined", <<>>, <<>>, <<>>)),
           Settings(FALSE, <<>>, DefaultTemplate, FALSE),
           <<Rule(FALSE, FALSE, <<"*.ts">>)>>,
           NoFault)}

\* The workspaces whose sheafy.toml ignores every file: ignore_patterns is
\* the one pattern "*".
FilteredOutSetups ==
    {Setup(TomlFile("ok", Toml(wd, "false", <<Rule(FALSE, FALSE, <<"*">>)>>,
                               t.prologue, t.epilogue)),
           Settings(TRUE, ds, t.template, t.relative), <<>>, NoFault) :
        t \in TextSetups, wd \in WorkingDirs, ds \in DestinationLists}

\* The folders the folder command is invoked on: a subfolder, a subfolder
\* with a name the traversal does not descend into, a file, and a path that
\* does not exist.
FolderChoices == {<<"sub">>, <<"build">>, <<"a.ts">>, <<"gone">>}

NoCancel == [pc |-> "", dest |-> 0, unvisited |-> FALSE]

NoPrev ==
    [valid |-> FALSE, cmd |-> "", startPath |-> <<>>, text |-> <<>>,
     included |-> <<>>]

\* The files of the workspace other than sheafy.toml.
SourceFiles ==
    (<<".gitignore">> :> <<"gitignore">>)
        @@ (<<"a.ts">> :> <<>>)
        @@ (<<"build", "x.js">> :> <<"text">>)
        @@ (<<"sub", "b.ts">> :> <<"text">>)

\* The number of initConfigCommand invocations that may be in progress.
MaxInits == 2

Invocations == 1..MaxInits

\* The state before the first command, for the workspaces of setups.
InitOf(setups) ==
    /\ dirs = {<<>>, <<"build">>, <<"sub">>}
    /\ \E s \in setups :
         /\ files = (IF s.file.state = "ENOENT" THEN SourceFiles
                     ELSE SourceFiles @@ (<<"sheafy.toml">> :> <<"toml">>))
                    @@ (IF s.fault.extra = <<>> THEN <<>>
                        ELSE s.fault.extra :> <<"text">>)
         /\ unreadable = s.fault.unreadable
         /\ unlistable = s.fault.unlistable
         /\ specials = s.fault.specials
         /\ gitignoreRules = s.rules
         /\ config = loadSheafyConfig(s.file, s.vscodeConfig)
    /\ clipboard = <<"earlier clipboard text">>
    /\ views = <<>>
    /\ run = 0
    /\ cmd = ""
    /\ startPath = <<>>
    /\ dests = <<>>
    /\ cancelled = FALSE
    /\ pc = "idle"
    /\ stack = <<>>
    /\ pendingDir = <<>>
    /\ allFilePaths = <<>>
    /\ idx = 0
    /\ mainFilter = <<>>
    /\ gitignoreFilter = [on |-> FALSE, rules |-> <<>>]
    /\ outputParts = <<>>
    /\ partFile = <<>>
    /\ finalOutput = <<>>
    /\ assembled = FALSE
    /\ destIdx = 0
    /\ results = <<>>
    /\ notes = <<>>
    /\ effects = <<>>
    /\ cancelAt = NoCancel
    /\ prev = NoPrev
    /\ initPc = [i \in Invocations |-> "idle"]

\* No rendering alone is under way.
NoRendering ==
    /\ renderIn = [template |-> <<>>, filePath |-> <<>>, content |-> <<>>]
    /\ renderOut = [done |-> FALSE, text |-> <<>>]

Init ==
    InitOf(TomlSetups \cup DefaultingSetups \cup FilteredOutSetups) /\ NoRendering

-----------------------------------------------------------------------------
(* Notifications and results *)

Notice(level, what, items) == [level |-> level, what |-> what, items |-> items]

\* An ExportResultDetails; filePath = <<>> and message = "" when not set.
Result(type, success, filePath, message) ==
    [type |-> type, success |-> success, filePath |-> filePath,
     message |-> message]

\* The notifications handleExportResults shows for the results it is given.
handleExportResults(rs) ==
    LET successMessages == SelectSeq(rs, LAMBDA r : r.success)
        errorMessages == SelectSeq(rs, LAMBDA r : ~r.success)
    IN  (IF successMessages # <<>>
           THEN <<Notice("info", "successful", successMessages)>> ELSE <<>>)
        \o (IF errorMessages # <<>>
              THEN <<Notice("error", "encountered errors", errorMessages)>>
              ELSE <<>>)
        \o (IF successMessages = <<>> /\ errorMessages = <<>> /\ rs # <<>>
                 /\ \A i \in 1..Len(rs) : ~rs[i].success
              THEN <<Notice("warning", "failed", <<>>)>>
              ELSE IF successMessages = <<>> /\ errorMessages = <<>>
                        /\ rs = <<>>
                     THEN <<Notice("warning", "no output", <<>>)>>
                     ELSE <<>>)

\* The catch clause of the command: a CancellationError ends the command
\* with the cancellation notice.
CommandCancelled ==
    /\ notes' = Append(notes, Notice("info", "cancelled", <<>>))
    /\ pc' = "done"

\* exportContent has returned rs to the command: the command checks the
\* token once more, then reports.
CommandReport(shown, rs) ==
    /\ pc' = "done"
    /\ notes' = IF cancelled
                  THEN Append(shown, Notice("info", "cancelled", <<>>))
                  ELSE shown \o handleExportResults(rs)

-----------------------------------------------------------------------------
(* The commands *)

StartCommand(c, folder) ==
    /\ pc \in {"idle", "done"}
    /\ run < MaxRuns
    /\ run' = run + 1
    /\ cmd' = c
    /\ startPath' = folder
    /\ dests' = <<>>
    /\ cancelled' = FALSE
    /\ stack' = <<>>
    /\ pendingDir' = <<>>
    /\ allFilePaths' = <<>>
    /\ idx' = 0
    /\ mainFilter' = <<>>
    /\ gitignoreFilter' = [on |-> FALSE, rules |-> <<>>]
    /\ outputParts' = <<>>
    /\ partFile' = <<>>
    /\ finalOutput' = <<>>
    /\ assembled' = FALSE
    /\ destIdx' = 0
    /\ results' = <<>>
    /\ notes' = <<>>
    /\ effects' = <<>>
    /\ cancelAt' = NoCancel
    /\ prev' = IF assembled
                 THEN [valid |-> TRUE, cmd |-> cmd, startPath |-> startPath,
                       text |-> finalOutput,
                       included |-> SelectSeq(partFile, LAMBDA f : f # <<>>)]
                 ELSE NoPrev
    /\ pc' = "loadConfig"
    /\ UNCHANGED <<fsVars, hostVars, config, sideVars>>

\* sheafy.exportFolderToClipboard on a folder of the workspace.
StartFolderCommand == \E folder \in FolderChoices : StartCommand("folder", folder)

\* sheafy.exportProjectToTextFile: the export starts at the workspace root.
StartProjectCommand == StartCommand("project", basePath)

\* Mutant of CommandDestinations: the folder command keeps the configured
\* destinations.
CommandDestinationsFromConfig(c, cfg) == cfg.exportDestinations

\* The exportDestinations of the configuration a command hands to
\* exportContent: the folder command replaces them by the clipboard alone.
CommandDestinations(c, cfg) ==
    IF c = "folder" THEN <<"clipboard">> ELSE cfg.exportDestinations

\* loadSheafyConfig has completed.  The command checks the token, fixes the
\* destinations and calls exportContent, which checks the token and stats
\* the start path.
ConfigLoaded ==
    /\ pc = "loadConfig"
    /\ IF cancelled
         THEN CommandCancelled /\ UNCHANGED dests
         ELSE /\ dests' = CommandDestinations(cmd, config)
              /\ pc' = "stat"
              /\ UNCHANGED notes
    /\ UNCHANGED <<fsVars, hostVars, config, run, cmd, startPath, cancelled,
                   walkVars, renderVars, sinkVars, effects, cancelAt,
                   prev, sideVars>>

\* Mutant of StartPathCatch: the CancellationError is not thrown on.
StartPathCatchReportingAll(error) == "report"

\* What the catch clause around stat and the traversal does with an error.
StartPathCatch(error) == IF error = "CancellationError" THEN "rethrow" ELSE "report"

\* An error raised by stat or by the traversal reaches exportContent's
\* catch clause: a CancellationError is thrown on to the command, any other
\* error is shown and returned as the one result.
StartPathError(error) ==
    IF StartPathCatch(error) = "rethrow"
      THEN CommandCancelled /\ UNCHANGED results
      ELSE LET rs == <<Result("file", FALSE, <<>>, error)>>
           IN  /\ results' = rs
               /\ CommandReport(
                     Append(notes, Notice("error", "start path", <<error>>)),
                     rs)

\* fsPromises.stat(startPath) has completed; for a directory the traversal
\* starts, which checks the token before its readdir.
StatDone ==
    /\ pc = "stat"
    /\ IF startPath \notin dirs
         THEN /\ StartPathError(IF Exists(startPath) THEN "is not a directory"
                                ELSE "ENOENT")
              /\ UNCHANGED pendingDir
         ELSE IF cancelled
                THEN StartPathError("CancellationError") /\ UNCHANGED pendingDir
                ELSE /\ pendingDir' = startPath
                     /\ pc' = "readdir"
                     /\ UNCHANGED <<results, notes>>
    /\ UNCHANGED <<fsVars, hostVars, config, run, cmd, startPath, dests,
                   cancelled, stack, allFilePaths, renderVars, finalOutput,
                   assembled, destIdx, effects, cancelAt, prev, sideVars>>

-----------------------------------------------------------------------------
(* getAllFilesRecursive *)

\* The directory names the traversal never descends into.
PrunedNames == {".git", "node_modules", "target", "build", "dist"}

Frame(dir, rest) == [dir |-> dir, rest |-> rest]

\* Mutant of ReaddirDone: the error of a failed readdir is thrown on to
\* exportContent's catch clause.
ReaddirDoneThrowing ==
    /\ pc = "readdir"
    /\ IF pendingDir \in unlistable
         THEN StartPathError("EACCES") /\ UNCHANGED stack
         ELSE /\ stack' = Append(stack, Frame(pendingDir, Entries(pendingDir)))
              /\ pc' = "walk"
              /\ UNCHANGED <<results, notes>>
    /\ UNCHANGED <<fsVars, hostVars, config, run, cmd, startPath, dests,
                   cancelled, pendingDir, allFilePaths, renderVars,
                   finalOutput, assembled, destIdx, effects, cancelAt, prev,
                   sideVars>>

\* readdir(pendingDir) has completed: its entries open a new frame, or the
\* error is logged and the call returns what has been collected.
ReaddirDone ==
    /\ pc = "readdir"
    /\ stack' = IF pendingDir \in unlistable THEN stack
                ELSE Append(stack, Frame(pendingDir, Entries(pendingDir)))
    /\ pc' = "walk"
    /\ UNCHANGED <<fsVars, hostVars, config, run, cmd, startPath, dests,
                   cancelled, pendingDir, allFilePaths, renderVars, sinkVars,
                   notes, effects, cancelAt, prev, sideVars>>

\* One turn of the loop over the entries of the innermost frame.
WalkEntry ==
    /\ pc = "walk"
    /\ stack # <<>>
    /\ Last(stack).rest # <<>>
    /\ LET top == Last(stack)
           name == Head(top.rest)
           fullPath == top.dir \o <<name>>
           advanced == Append(Front(stack), Frame(top.dir, Tail(top.rest)))
       IN  IF cancelled
             THEN /\ StartPathError("CancellationError")
                  /\ UNCHANGED <<stack, pendingDir, allFilePaths>>
             ELSE /\ stack' = advanced
                  /\ UNCHANGED <<results, notes>>
                  /\ IF fullPath \in dirs
                       THEN IF name \in PrunedNames
                              THEN UNCHANGED <<pc, pendingDir, allFilePaths>>
                              ELSE \* the recursive call: token check, readdir
                                   /\ pendingDir' = fullPath
                                   /\ pc' = "readdir"
                                   /\ UNCHANGED allFilePaths
                       ELSE /\ allFilePaths' = Append(allFilePaths, fullPath)
                            /\ UNCHANGED <<pc, pendingDir>>
    /\ UNCHANGED <<fsVars, hostVars, config, run, cmd, startPath, dests,
                   cancelled, renderVars, finalOutput, assembled, destIdx,
                   effects, cancelAt, prev, sideVars>>

\* The loop of the innermost frame is over: the call returns to its caller.
WalkReturn ==
    /\ pc = "walk"
    /\ stack # <<>>
    /\ Last(stack).rest = <<>>
    /\ stack' = Front(stack)
    /\ UNCHANGED <<fsVars, hostVars, config, run, cmd, startPath, dests,
                   cancelled, pc, pendingDir, allFilePaths, renderVars,
                   sinkVars, notes, effects, cancelAt, prev, sideVars>>

-----------------------------------------------------------------------------
(* exportContent: filters and rendering *)

\* The rules added to mainFilter, in the order they are added.
BuildMainFilter(cfg) ==
    LET bundleRelPathInRootDir == Relative(basePath, basePath \o <<cfg.bundle_name>>)
        bundleRelPathInWorkingDir ==
            Relative(basePath, cfg.working_dir \o <<cfg.bundle_name>>)
    IN  <<PathRule(bundleRelPathInRootDir)>>
        \o (IF bundleRelPathInWorkingDir # bundleRelPathInRootDir
              THEN <<PathRule(bundleRelPathInWorkingDir)>> ELSE <<>>)
        \o <<PathRule(Relative(basePath, basePath \o <<"sheafy.toml">>))>>
        \o cfg.ignore_patterns_array

\* Prologue pushed, the file loop starts.
BeginRender ==
    /\ outputParts' = IF config.prologue # <<>> THEN <<config.prologue>> ELSE <<>>
    /\ partFile' = IF config.prologue # <<>> THEN <<(<<>>)>> ELSE <<>>
    /\ idx' = 1
    /\ pc' = "render"

\* The traversal has returned: the token is checked, mainFilter is built
\* and, when use_gitignore is set, the root .gitignore is read.
TraversalDone ==
    /\ pc = "walk"
    /\ stack = <<>>
    /\ IF cancelled
         THEN /\ CommandCancelled
              /\ UNCHANGED renderVars
         ELSE /\ mainFilter' = BuildMainFilter(config)
              /\ UNCHANGED notes
              /\ IF config.use_gitignore
                   THEN /\ pc' = "gitignore"
                        /\ UNCHANGED <<idx, gitignoreFilter, outputParts, partFile>>
                   ELSE /\ BeginRender
                        /\ UNCHANGED gitignoreFilter
    /\ UNCHANGED <<fsVars, hostVars, config, run, cmd, startPath, dests,
                   cancelled, walkVars, sinkVars, effects, cancelAt, prev,
                   sideVars>>

\* getGitignoreFilter: the rules of the root .gitignore, none when it
\* cannot be read.
getGitignoreFilter ==
    IF <<".gitignore">> \in DOMAIN files /\ <<".gitignore">> \notin unreadable
      THEN gitignoreRules ELSE <<>>

\* The read of .gitignore has completed.
GitignoreDone ==
    /\ pc = "gitignore"
    /\ gitignoreFilter' = [on |-> TRUE, rules |-> getGitignoreFilter]
    /\ IF cancelled
         THEN CommandCancelled /\ UNCHANGED <<idx, outputParts, partFile>>
         ELSE BeginRender /\ UNCHANGED notes
    /\ UNCHANGED <<fsVars, hostVars, config, run, cmd, startPath, dests,
                   cancelled, walkVars, mainFilter, sinkVars, effects,
                   cancelAt, prev, sideVars>>

\* Mutant of RelPathForFilter: relative to the start folder.
RelPathForFilterFromStart(filePath) == Relative(startPath, filePath)

\* The path matched against the ignore rules.
RelPathForFilter(filePath) == Relative(basePath, filePath)

\* Mutant of RelPathForTemplate: either condition alone selects the start
\* folder.
RelPathForTemplateEither(start, relativize, filePath) ==
    IF start # basePath \/ relativize
      THEN Relative(start, filePath)
      ELSE Relative(basePath, filePath)

\* The path substituted for {relpath}.
RelPathForTemplate(start, relativize, filePath) ==
    LET isFolderExportFromSubdirectory == (start # basePath) IN
    IF isFolderExportFromSubdirectory /\ relativize
      THEN Relative(start, filePath)
      ELSE Relative(basePath, filePath)

\* Mutant of Excluded: the two rule lists are tested as one list.
ExcludedByOneList(gitFilter, toolFilter, rel) ==
    \/ rel[1] = ".git"
    \/ Ignores((IF gitFilter.on THEN gitFilter.rules ELSE <<>>) \o toolFilter,
               rel)

\* The three tests that make the file loop skip a file.
Excluded(gitFilter, toolFilter, rel) ==
    \/ rel[1] = ".git"
    \/ gitFilter.on /\ Ignores(gitFilter.rules, rel)
    \/ Ignores(toolFilter, rel)

\* One turn of the file loop up to its readFile: token check and filters.
FilterFile ==
    /\ pc = "render"
    /\ idx <= Len(allFilePaths)
    /\ IF cancelled
         THEN CommandCancelled /\ UNCHANGED idx
         ELSE /\ UNCHANGED notes
              /\ IF Excluded(gitignoreFilter, mainFilter,
                             RelPathForFilter(allFilePaths[idx]))
                   THEN idx' = idx + 1 /\ UNCHANGED pc
                   ELSE pc' = "readFile" /\ UNCHANGED idx
    /\ UNCHANGED <<fsVars, hostVars, config, run, cmd, startPath, dests,
                   cancelled, walkVars, mainFilter, gitignoreFilter,
                   outputParts, partFile, sinkVars, effects, cancelAt,
                   prev, sideVars>>

\* The segment pushed for a file: the rendered template, or the error
\* marker when the read failed.
Segment(filePath) ==
    LET rel == RelPathForTemplate(startPath,
                   config.folderExportPathRelativeToClickedFolder, filePath)
    IN  IF filePath \in unreadable
          THEN ErrorMarker(rel, ReadErrorMessage)
          ELSE Render(config.exportFormatTemplate, rel,
                      getLanguageId(filePath), files[filePath])

\* Mutant of ReadFileDone: a file that cannot be read gets no segment.
ReadFileDoneSkippingFailures ==
    /\ pc = "readFile"
    /\ outputParts' = IF allFilePaths[idx] \in unreadable THEN outputParts
                      ELSE Append(outputParts, Segment(allFilePaths[idx]))
    /\ partFile' = IF allFilePaths[idx] \in unreadable THEN partFile
                   ELSE Append(partFile, allFilePaths[idx])
    /\ idx' = idx + 1
    /\ pc' = "render"
    /\ UNCHANGED <<fsVars, hostVars, config, run, cmd, startPath, dests,
                   cancelled, walkVars, mainFilter, gitignoreFilter, sinkVars,
                   notes, effects, cancelAt, prev, sideVars>>

\* readFile has completed: the segment is pushed and the loop goes on.
ReadFileDone ==
    /\ pc = "readFile"
    /\ outputParts' = Append(outputParts, Segment(allFilePaths[idx]))
    /\ partFile' = Append(partFile, allFilePaths[idx])
    /\ idx' = idx + 1
    /\ pc' = "render"
    /\ UNCHANGED <<fsVars, hostVars, config, run, cmd, startPath, dests,
                   cancelled, walkVars, mainFilter, gitignoreFilter, sinkVars,
                   notes, effects, cancelAt, prev, sideVars>>

\* After the file loop: token check, epilogue, join, token check.
Finalize ==
    /\ pc = "render"
    /\ idx > Len(allFilePaths)
    /\ IF cancelled
         THEN /\ CommandCancelled
              /\ UNCHANGED <<outputParts, partFile, finalOutput, assembled, destIdx>>
         ELSE LET parts == IF config.epilogue # <<>>
                             THEN Append(outputParts, config.epilogue)
                             ELSE outputParts
              IN  /\ outputParts' = parts
                  /\ partFile' = IF config.epilogue # <<>>
                                   THEN Append(partFile, <<>>) ELSE partFile
                  /\ finalOutput' = Join(parts, <<"\n\n">>)
                  /\ assembled' = TRUE
                  /\ destIdx' = 1
                  /\ pc' = "dispatch"
                  /\ UNCHANGED notes
    /\ UNCHANGED <<fsVars, hostVars, config, run, cmd, startPath, dests,
                   cancelled, walkVars, idx, mainFilter, gitignoreFilter,
                   results, effects, cancelAt, prev, sideVars>>

-----------------------------------------------------------------------------
(* exportContent: destinations *)

Effect(op, ok) == [op |-> op, dest |-> destIdx, ok |-> ok]

\* The result pushed by the catch clause of the destination loop.
FailedResult(dest, message) ==
    Result(IF dest \in {"clipboard", "tempTab"} THEN dest ELSE "file",
           FALSE, <<>>, message)

\* The directory a file destination writes into.
TargetDir(dest) == IF dest = "rootDir" THEN basePath ELSE config.working_dir

\* The first I/O of an attempt on destination dest.
FirstSinkOp(dest) ==
    CASE dest = "clipboard" -> "clipboardWrite"
      [] dest = "tempTab" -> "openDoc"
      [] dest = "workingDir" /\ TargetDir(dest) # basePath -> "mkdir"
      [] OTHER -> "writeFile"

\* Mutant of DispatchNext: the token is not checked at the loop head.
DispatchNextUnchecked ==
    /\ pc = "dispatch"
    /\ destIdx <= Len(dests)
    /\ pc' = FirstSinkOp(dests[destIdx])
    /\ UNCHANGED <<fsVars, hostVars, config, run, cmd, startPath, dests,
                   cancelled, walkVars, renderVars, sinkVars, notes, effects,
                   cancelAt, prev, sideVars>>

\* Mutant of DispatchNext: a bundle without a file segment is not sent to
\* the file destinations.
DispatchNextSuppressingEmpty ==
    /\ pc = "dispatch"
    /\ destIdx <= Len(dests)
    /\ IF cancelled
         THEN CommandCancelled /\ UNCHANGED sinkVars
         ELSE IF (\A i \in 1..Len(partFile) : partFile[i] = <<>>)
                    /\ dests[destIdx] \in {"rootDir", "workingDir"}
                THEN /\ destIdx' = destIdx + 1
                     /\ UNCHANGED <<pc, notes, finalOutput, assembled, results>>
                ELSE /\ pc' = FirstSinkOp(dests[destIdx])
                     /\ UNCHANGED <<notes, sinkVars>>
    /\ UNCHANGED <<fsVars, hostVars, config, run, cmd, startPath, dests,
                   cancelled, walkVars, renderVars, effects,
                   cancelAt, prev, sideVars>>

\* The head of the destination loop: token check, then the attempt starts.
DispatchNext ==
    /\ pc = "dispatch"
    /\ destIdx <= Len(dests)
    /\ IF cancelled
         THEN CommandCancelled
         ELSE pc' = FirstSinkOp(dests[destIdx]) /\ UNCHANGED notes
    /\ UNCHANGED <<fsVars, hostVars, config, run, cmd, startPath, dests,
                   cancelled, walkVars, renderVars, sinkVars, effects,
                   cancelAt, prev, sideVars>>

\* Mutant of NextDestination: a failed attempt leaves no result.
NextDestinationDroppingFailures(r) ==
    /\ results' = IF r.success THEN Append(results, r) ELSE results
    /\ destIdx' = destIdx + 1
    /\ pc' = "dispatch"

\* The attempt on the current destination is over with result r.
NextDestination(r) ==
    /\ results' = Append(results, r)
    /\ destIdx' = destIdx + 1
    /\ pc' = "dispatch"

\* vscode.env.clipboard.writeText has completed.
ClipboardWriteDone ==
    /\ pc = "clipboardWrite"
    /\ \E ok \in BOOLEAN :
         /\ effects' = Append(effects, Effect("clipboardWrite", ok))
         /\ clipboard' = IF ok THEN finalOutput ELSE clipboard
         /\ NextDestination(IF ok THEN Result("clipboard", TRUE, <<>>, "")
                            ELSE FailedResult("clipboard", "clipboard error"))
    /\ UNCHANGED <<fsVars, views, config, run, cmd, startPath, dests,
                   cancelled, walkVars, renderVars, finalOutput, assembled,
                   notes, cancelAt, prev, sideVars>>

\* vscode.workspace.openTextDocument has completed; showTextDocument
\* follows without a token check.
OpenDocDone ==
    /\ pc = "openDoc"
    /\ \E ok \in BOOLEAN :
         /\ effects' = Append(effects, Effect("openDoc", ok))
         /\ IF ok
              THEN pc' = "showDoc" /\ UNCHANGED <<results, destIdx>>
              ELSE NextDestination(FailedResult("tempTab", "open error"))
    /\ UNCHANGED <<fsVars, hostVars, config, run, cmd, startPath, dests,
                   cancelled, walkVars, renderVars, finalOutput, assembled,
                   notes, cancelAt, prev, sideVars>>

\* vscode.window.showTextDocument has completed.
ShowDocDone ==
    /\ pc = "showDoc"
    /\ \E ok \in BOOLEAN :
         /\ effects' = Append(effects, Effect("showDoc", ok))
         /\ views' = IF ok THEN Append(views, finalOutput) ELSE views
         /\ NextDestination(IF ok THEN Result("tempTab", TRUE, <<>>, "")
                            ELSE FailedResult("tempTab", "show error"))
    /\ UNCHANGED <<fsVars, clipboard, config, run, cmd, startPath, dests,
                   cancelled, walkVars, renderVars, finalOutput, assembled,
                   notes, cancelAt, prev, sideVars>>

\* Mutant of MkdirDone: writeFile follows a failed mkdir as well.
MkdirDoneWritingAnyway ==
    /\ pc = "mkdir"
    /\ \E ok \in BOOLEAN :
         /\ effects' = Append(effects, Effect("mkdir", ok))
         /\ IF ok
              THEN /\ dirs' = MkdirP(TargetDir(dests[destIdx]))
                   /\ pc' = "writeFile"
                   /\ UNCHANGED <<results, destIdx>>
              ELSE /\ pc' = "writeFile"
                   /\ UNCHANGED <<dirs, results, destIdx>>
    /\ UNCHANGED <<files, unreadable, unlistable, specials, gitignoreRules, hostVars,
                   config, run, cmd, startPath, dests, cancelled, walkVars,
                   renderVars, finalOutput, assembled, notes, cancelAt,
                   prev, sideVars>>

\* fsPromises.mkdir(working_dir, {recursive: true}) has completed; on
\* success writeFile follows without a token check, on failure the failed
\* result is pushed and the loop continues.
MkdirDone ==
    /\ pc = "mkdir"
    /\ \E ok \in BOOLEAN :
         /\ effects' = Append(effects, Effect("mkdir", ok))
         /\ IF ok
              THEN /\ dirs' = MkdirP(TargetDir(dests[destIdx]))
                   /\ pc' = "writeFile"
                   /\ UNCHANGED <<results, destIdx>>
              ELSE /\ NextDestination(
                        Result("file", FALSE, <<>>,
                               "Failed to create working directory"))
                   /\ UNCHANGED dirs
    /\ UNCHANGED <<files, unreadable, unlistable, specials, gitignoreRules, hostVars,
                   config, run, cmd, startPath, dests, cancelled, walkVars,
                   renderVars, finalOutput, assembled, notes, cancelAt,
                   prev, sideVars>>

\* fsPromises.writeFile(outputFilePath, finalOutput) has completed.
WriteFileDone ==
    /\ pc = "writeFile"
    /\ LET outputFilePath == TargetDir(dests[destIdx]) \o <<config.bundle_name>>
       IN  \E ok \in BOOLEAN :
             /\ effects' = Append(effects, Effect("writeFile", ok))
             /\ files' = IF ok THEN WriteFile(outputFilePath, finalOutput)
                         ELSE files
             /\ NextDestination(
                   IF ok THEN Result("file", TRUE,
                                     Relative(basePath, outputFilePath), "")
                   ELSE FailedResult(dests[destIdx], "write error"))
    /\ UNCHANGED <<dirs, unreadable, unlistable, specials, gitignoreRules, hostVars,
                   config, run, cmd, startPath, dests, cancelled, walkVars,
                   renderVars, finalOutput, assembled, notes, cancelAt,
                   prev, sideVars>>

\* The destination loop is over: exportContent returns its results to the
\* command, which checks the token and reports.
ReturnResults ==
    /\ pc = "dispatch"
    /\ destIdx > Len(dests)
    /\ CommandReport(notes, results)
    /\ UNCHANGED <<fsVars, hostVars, config, run, cmd, startPath, dests,
                   cancelled, walkVars, renderVars, sinkVars, effects,
                   cancelAt, prev, sideVars>>

-----------------------------------------------------------------------------
(* Cancellation *)

\* The traversal still has a directory to descend into: one listed in an
\* open frame and not yet reached, or one inside the directory being read.
UnvisitedDirs ==
    /\ pc = "readdir"
    /\ \/ \E i \in 1..Len(stack) : \E n \in Range(stack[i].rest) :
              /\ stack[i].dir \o <<n>> \in dirs
              /\ n \notin PrunedNames
       \/ /\ pendingDir \notin unlistable
          /\ \E n \in Range(Entries(pendingDir)) :
                /\ pendingDir \o <<n>> \in dirs
                /\ n \notin PrunedNames

\* The user presses Cancel on the progress notification while the command
\* waits for an I/O.
Cancel ==
    /\ pc \in AwaitPcs
    /\ ~cancelled
    /\ cancelled' = TRUE
    /\ cancelAt' = [pc |-> pc, dest |-> destIdx, unvisited |-> UnvisitedDirs]
    /\ UNCHANGED <<fsVars, hostVars, config, run, cmd, startPath, dests, pc,
                   walkVars, renderVars, sinkVars, notes, effects, prev,
                   sideVars>>

-----------------------------------------------------------------------------

Next ==
    \/ StartFolderCommand
    \/ StartProjectCommand
    \/ ConfigLoaded
    \/ StatDone
    \/ ReaddirDone
    \/ WalkEntry
    \/ WalkReturn
    \/ TraversalDone
    \/ GitignoreDone
    \/ FilterFile
    \/ ReadFileDone
    \/ Finalize
    \/ DispatchNext
    \/ ClipboardWriteDone
    \/ OpenDocDone
    \/ ShowDocDone
    \/ MkdirDone
    \/ WriteFileDone
    \/ ReturnResults
    \/ Cancel

Spec == Init /\ [][Next]_vars

-----------------------------------------------------------------------------
(* Properties *)

\* The bundle text has just been assembled; no destination has been tried.
JustAssembled == pc = "dispatch" /\ destIdx = 1

\* How many parts of the bundle came from file f.
SegmentsOf(f) == Cardinality({i \in 1..Len(partFile) : partFile[i] = f})

\* f is matched by an active ignore set, or is .git or below it.
MatchedByIgnoreSet(f) ==
    \/ gitignoreFilter.on /\ Ignores(gitignoreFilter.rules, f)
    \/ Ignores(mainFilter, f)
    \/ f[1] = ".git"

\* f lies below the start folder, and no directory between the start folder
\* and f has a pruned name or cannot be listed.
ReachedByTraversal(f) ==
    /\ IsPrefix(startPath, f)
    /\ Len(f) > Len(startPath)
    /\ startPath \notin unlistable
    /\ \A k \in (Len(startPath) + 1)..(Len(f) - 1) :
         /\ f[k] \notin PrunedNames
         /\ SubSeq(f, 1, k) \notin unlistable

\* C1 as stated: in a run that assembles its bundle, every file under the
\* root that no active ignore set matches and that is not under .git has
\* exactly one segment in the bundle.
C1_EveryFileUnderRootOnce ==
    JustAssembled =>
        \A f \in DOMAIN files : ~MatchedByIgnoreSet(f) => SegmentsOf(f) = 1

\* C1 amended: the same for the files the traversal reaches from the start
\* folder (not below a directory named .git, node_modules, target, build or
\* dist, nor below a directory that cannot be listed); and no file has more
\* than one segment.
C1_EveryReachedFileOnce ==
    JustAssembled =>
        \A f \in DOMAIN files :
            /\ (ReachedByTraversal(f) /\ ~MatchedByIgnoreSet(f))
                   => SegmentsOf(f) = 1
            /\ SegmentsOf(f) <= 1

\* C1 witness: a project export whose bundle has segments from two files
\* while a third file, matched by an ignore set, was traversed and left out.
C1_Witness ==
    /\ JustAssembled
    /\ startPath = basePath
    /\ SegmentsOf(<<"sub", "b.ts">>) = 1
    /\ SegmentsOf(<<".gitignore">>) = 1
    /\ <<"a.ts">> \in Range(allFilePaths)
    /\ MatchedByIgnoreSet(<<"a.ts">>)
    /\ SegmentsOf(<<"a.ts">>) = 0

\* C2 as stated: the bundle file in the root and the bundle file in the
\* working directory never have a segment in the bundle, in a first run or
\* in a run after the file has been written.
C2_SelfExclusion ==
    \A i \in 1..Len(partFile) :
        /\ partFile[i] # basePath \o <<config.bundle_name>>
        /\ partFile[i] # config.working_dir \o <<config.bundle_name>>

\* C2 with ignore patterns that do not negate: the self-exclusion holds.
C2_SelfExclusionWithoutNegation ==
    (\A i \in 1..Len(config.ignore_patterns_array) :
         ~config.ignore_patterns_array[i].neg)
        => C2_SelfExclusion

\* C3: when no cancellation is requested, a run that reaches the
\* destinations attempts every requested destination and returns one result
\* per destination, in request order, whose success is that destination's
\* own outcome; the command ends with the report of these results.
C3_DestinationIndependence ==
    (pc = "done" /\ assembled /\ ~cancelled) =>
        /\ Len(results) = Len(dests)
        /\ \A d \in 1..Len(dests) :
             /\ results[d].type =
                    (IF dests[d] \in {"rootDir", "workingDir"} THEN "file"
                     ELSE dests[d])
             /\ \E i \in 1..Len(effects) : effects[i].dest = d
             /\ results[d].success =
                    (\A i \in 1..Len(effects) :
                         effects[i].dest = d => effects[i].ok)
        /\ \A i, j \in 1..Len(effects) :
             i < j => effects[i].dest <= effects[j].dest
        /\ notes = handleExportResults(results)

\* C3 witness: the first destination failed and a later one succeeded.
C3_Witness ==
    /\ pc = "done"
    /\ assembled
    /\ ~cancelled
    /\ Len(dests) = 3
    /\ ~results[1].success
    /\ results[2].success
    /\ ~results[3].success

\* The cancellation notice of the command.
CancelNotice == Notice("info", "cancelled", <<>>)

\* C4: when cancellation is requested while the traversal still has
\* directories unvisited, the run performs no destination I/O and the
\* command ends with the cancellation notice as its only notification.
C4_CancelMidTraversal ==
    (cancelled /\ cancelAt.unvisited) =>
        /\ effects = <<>>
        /\ pc \in {"readdir", "walk", "done"}
        /\ pc = "done" => notes = <<CancelNotice>>

\* C4 witness: a command cancelled mid-traversal has ended.
C4_Witness ==
    /\ cancelled
    /\ cancelAt.unvisited
    /\ pc = "done"
    /\ allFilePaths # <<>>

\* The destination of attempt d holds the bundle text.
Holds(d) ==
    CASE dests[d] = "clipboard" -> clipboard = finalOutput
      [] dests[d] = "tempTab" -> views # <<>> /\ Last(views) = finalOutput
      [] OTHER ->
           LET outputFilePath == TargetDir(dests[d]) \o <<config.bundle_name>>
           IN  outputFilePath \in DOMAIN files
                   /\ files[outputFilePath] = finalOutput

\* C5: once cancellation has been requested, no I/O is performed on a
\* destination whose attempt had not begun at that moment, and every
\* destination written in the run still holds the bundle text.
C5_CancelDuringDispatch ==
    cancelled =>
        /\ \A i \in 1..Len(effects) : effects[i].dest <= cancelAt.dest
        /\ \A d \in 1..Len(results) : results[d].success => Holds(d)

\* C5 witness: cancellation came during the first of several attempts; that
\* destination was written and the command has ended.
C5_Witness ==
    /\ cancelled
    /\ pc = "done"
    /\ cancelAt.dest = 1
    /\ Len(dests) > 1
    /\ Len(results) = 1
    /\ results[1].success
    /\ Holds(1)

\* The files of the parts of the bundle, in bundle order.
SegmentFiles == SelectSeq(partFile, LAMBDA f : f # <<>>)

\* Some traversed file that no ignore set matches cannot be read.
HasReadFailure ==
    \E i \in 1..Len(allFilePaths) :
        /\ allFilePaths[i] \in unreadable
        /\ ~MatchedByIgnoreSet(allFilePaths[i])

\* C6: when one of the N included files cannot be read, the bundle still
\* has N segments in discovery order, the unreadable file's being the error
\* marker with its template-relative path and the error text and the others
\* rendered normally; and a run that is not cancelled attempts every
\* requested destination with the text joined from these parts.
C6_ReadFailureIsolated ==
    /\ (JustAssembled /\ HasReadFailure) =>
          /\ SegmentFiles =
                 SelectSeq(allFilePaths, LAMBDA f : ~MatchedByIgnoreSet(f))
          /\ \A i \in 1..Len(partFile) :
                LET f == partFile[i]
                    rel == RelPathForTemplate(startPath,
                               config.folderExportPathRelativeToClickedFolder, f)
                IN  f # <<>> =>
                      outputParts[i] =
                        IF f \in unreadable
                          THEN <<"### ">> \o PathText(rel)
                                 \o <<"\n\n", "--- ERROR: Could not read file: ",
                                      ReadErrorMessage, " ---\n">>
                          ELSE Render(config.exportFormatTemplate, rel,
                                      getLanguageId(f), files[f])
          /\ finalOutput = Join(outputParts, <<"\n\n">>)
    /\ (pc = "done" /\ assembled /\ ~cancelled /\ HasReadFailure) =>
          \A d \in 1..Len(dests) :
             /\ \E i \in 1..Len(effects) : effects[i].dest = d
             /\ d <= Len(results)
             /\ results[d].success => Holds(d)

\* C6 witness: a project export with the default template ended with three
\* segments, one of them the error marker, and its destinations attempted.
C6_Witness ==
    /\ pc = "done"
    /\ assembled
    /\ ~cancelled
    /\ Len(SegmentFiles) = 3
    /\ Cardinality({i \in 1..Len(partFile) : partFile[i] \in unreadable}) = 1
    /\ config.exportFormatTemplate = DefaultTemplate
    /\ Len(results) >= 2
    /\ results[2].success

\* C7: a traversed file that the VCS set (when enabled) or the tool set
\* ignores has no segment, whatever the rules of the other set are.
C7_IgnoreOr ==
    JustAssembled =>
        \A i \in 1..Len(allFilePaths) :
            LET f == allFilePaths[i] IN
            (\/ config.use_gitignore /\ Ignores(gitignoreRules, f)
             \/ Ignores(mainFilter, f))
                => SegmentsOf(f) = 0

\* C7 witness: sub/b.ts is ignored by the VCS set, the tool set holds a
\* negation that matches it, and it is left out of a bundle with segments.
C7_Witness ==
    /\ JustAssembled
    /\ config.use_gitignore
    /\ <<"sub", "b.ts">> \in Range(allFilePaths)
    /\ Ignores(gitignoreRules, <<"sub", "b.ts">>)
    /\ \E i \in 1..Len(mainFilter) :
         mainFilter[i].neg /\ RuleMatches(mainFilter[i], <<"sub", "b.ts">>, FALSE)
    /\ ~Ignores(mainFilter, <<"sub", "b.ts">>)
    /\ SegmentsOf(<<"sub", "b.ts">>) = 0
    /\ SegmentFiles # <<>>

\* C8 as stated: a run of the same command on the same folder as the
\* previous run, with the same configuration, assembles the same text.
C8_Idempotent ==
    (assembled /\ prev.valid /\ prev.cmd = cmd /\ prev.startPath = startPath)
        => finalOutput = prev.text

\* C8 with ignore patterns that do not negate: the two texts are equal.
C8_IdempotentWithoutNegation ==
    (\A i \in 1..Len(config.ignore_patterns_array) :
         ~config.ignore_patterns_array[i].neg)
        => C8_Idempotent

\* C9: the path put in place of {relpath} is relative to the start folder
\* exactly when the start folder is not the root and
\* folderExportPathRelativeToClickedFolder is set, and is otherwise the
\* root-relative path, the one matched against the ignore rules.
C9_TemplatePath ==
    JustAssembled =>
        \A i \in 1..Len(partFile) :
            LET f == partFile[i]
                fromStart == startPath # basePath
                    /\ config.folderExportPathRelativeToClickedFolder
                shown == IF fromStart
                           THEN SubSeq(f, Len(startPath) + 1, Len(f))
                           ELSE RelPathForFilter(f)
            IN  (f # <<>> /\ f \notin unreadable) =>
                    /\ outputParts[i] =
                           Render(config.exportFormatTemplate, shown,
                                  getLanguageId(f), files[f])
                    /\ fromStart => startPath \o shown = f
                    /\ ~fromStart => shown = f

\* C9 witness: a folder export of sub with the flag set shows sub/b.ts as
\* b.ts in the default template.
C9_Witness ==
    /\ JustAssembled
    /\ startPath = <<"sub">>
    /\ config.folderExportPathRelativeToClickedFolder
    /\ config.exportFormatTemplate = DefaultTemplate
    /\ \E i \in 1..Len(partFile) :
         /\ partFile[i] = <<"sub", "b.ts">>
         /\ outputParts[i] =
                <<"### ", "b.ts", "\n\n", "[fence]", "typescript", "\n", "text",
                  "\n[fence']\n">>

\* C9 witness, second half: the same export without the flag shows sub/b.ts.
C9_WitnessRootRelative ==
    /\ JustAssembled
    /\ startPath = <<"sub">>
    /\ ~config.folderExportPathRelativeToClickedFolder
    /\ \E i \in 1..Len(partFile) :
         /\ partFile[i] = <<"sub", "b.ts">>
         /\ outputParts[i] =
                <<"### ", "sub", "/", "b.ts", "\n\n", "[fence]", "typescript",
                  "\n", "text", "\n[fence']\n">>

\* The parts of the bundle that are not empty, in order.
NonEmptyParts == SelectSeq(outputParts, LAMBDA t : t # <<>>)

\* C10 as stated: the bundle is the prologue (when not empty), the segments
\* in discovery order and the epilogue (when not empty), with exactly one
\* "\n\n" between consecutive non-empty parts.
C10_Assembly ==
    assembled =>
        /\ (config.prologue # <<>>) =>
               (partFile[1] = <<>> /\ outputParts[1] = config.prologue)
        /\ (config.epilogue # <<>>) =>
               (Last(partFile) = <<>> /\ Last(outputParts) = config.epilogue)
        /\ Len(SegmentFiles) = Len(partFile)
               - (IF config.prologue # <<>> THEN 1 ELSE 0)
               - (IF config.epilogue # <<>> THEN 1 ELSE 0)
        /\ finalOutput = Join(NonEmptyParts, <<"\n\n">>)

\* C10 for bundles without an empty segment: the statement holds.
C10_AssemblyOfNonEmptySegments ==
    (NonEmptyParts = outputParts) => C10_Assembly

-----------------------------------------------------------------------------
(* Start path errors and notifications *)

\* The start path of the command is missing or is not a directory.
BadStartPath == startPath \notin dirs

\* The error notifications shown so far by the command.
ErrorNotices == SelectSeq(notes, LAMBDA n : n.level = "error")

\* C11 as stated: when the start path is missing or is not a directory the
\* run ends with no destination I/O and exactly one error notification.
C11_OneErrorForBadStartPath ==
    (pc = "done" /\ cmd # "" /\ BadStartPath /\ cancelAt = NoCancel) =>
        /\ effects = <<>>
        /\ Len(ErrorNotices) = 1

\* C11, the part that holds: no destination I/O is performed and the error
\* is shown, twice: by exportContent and again with the returned result.
C11_BadStartPathShownTwice ==
    (pc = "done" /\ cmd # "" /\ BadStartPath /\ cancelAt = NoCancel) =>
        /\ effects = <<>>
        /\ ~assembled
        /\ Len(results) = 1
        /\ ~results[1].success
        /\ Len(ErrorNotices) = 2

\* The command has run exportContent to its return and reported.
Completed == pc = "done" /\ assembled /\ ~cancelled

\* The notice shown when nothing was exported.
NothingNotice == Notice("warning", "no output", <<>>)

\* The notifications of the given kind shown so far by the command.
NoticesOf(what) == SelectSeq(notes, LAMBDA n : n.what = what)

\* C12 as stated: a completed run with no destination attempted or no file
\* in the bundle shows the "nothing" notice and no success notification;
\* any other completed run shows at most one success notification, listing
\* the succeeded destinations, and at most one error notification, listing
\* the failed ones.
C12_Notifications ==
    Completed =>
        IF effects = <<>> \/ SegmentFiles = <<>>
          THEN /\ NothingNotice \in Range(notes)
               /\ NoticesOf("successful") = <<>>
          ELSE /\ Len(NoticesOf("successful")) <= 1
               /\ Len(ErrorNotices) <= 1
               /\ \A i \in 1..Len(notes) :
                    /\ notes[i].what = "successful" =>
                           notes[i].items = SelectSeq(results, LAMBDA r : r.success)
                    /\ notes[i].level = "error" =>
                           notes[i].items = SelectSeq(results, LAMBDA r : ~r.success)

\* C12, the part that holds: every completed run, with or without files in
\* its bundle, shows one success notification when a destination succeeded
\* and one error notification when a destination failed, and nothing else.
C12_NotificationsFollowResults ==
    Completed =>
        LET succeeded == SelectSeq(results, LAMBDA r : r.success)
            failed == SelectSeq(results, LAMBDA r : ~r.success)
        IN  /\ effects # <<>>
            /\ notes = (IF succeeded # <<>>
                          THEN <<Notice("info", "successful", succeeded)>>
                          ELSE <<>>)
                       \o (IF failed # <<>>
                             THEN <<Notice("error", "encountered errors", failed)>>
                             ELSE <<>>)

\* C13: every step of an export-folder command leaves the opened views,
\* the directories and the files as they are; the command performs at most
\* one destination I/O, a clipboard write, and a completed command has
\* performed exactly that one and returns the clipboard result alone.
C13_FolderCommandClipboardOnly ==
    [][(cmd' = "folder" /\ run' = run) =>
          /\ views' = views
          /\ dirs' = dirs
          /\ files' = files
          /\ Len(effects') <= 1
          /\ \A i \in 1..Len(effects') : effects'[i].op = "clipboardWrite"
          /\ (pc' = "done" /\ assembled' /\ ~cancelled') =>
                /\ Len(effects') = 1
                /\ Len(results') = 1
                /\ results'[1].type = "clipboard"]_vars

\* C13 witness: a folder command under a configuration whose destinations
\* are the working directory and a tab has completed with the bundle of the
\* folder on the clipboard.
C13_Witness ==
    /\ cmd = "folder"
    /\ Completed
    /\ config.exportDestinations = <<"workingDir", "tempTab">>
    /\ SegmentFiles = <<(<<"sub", "b.ts">>)>>
    /\ effects = <<[op |-> "clipboardWrite", dest |-> 1, ok |-> TRUE]>>
    /\ clipboard = finalOutput
    /\ views = <<>>

-----------------------------------------------------------------------------
(* The use_gitignore flag *)

\* sheafy.toml was loaded and has the use_gitignore key.
TomlSetsUseGitignore ==
    /\ ~config.tomlConfig.null
    /\ config.tomlConfig.use_gitignore \in {"true", "false"}

\* C14: the effective use_gitignore is sheafy.toml's value when the file
\* was loaded and has the key, and the host's respectGitignore when the key
\* is absent or the file is missing or unusable (tomlConfig is null); when
\* the flag is false, .gitignore is never read, no .gitignore filter exists,
\* and every traversed file that mainFilter does not match and that is not
\* under .git has its segment in the bundle.
C14_UseGitignore ==
    /\ TomlSetsUseGitignore =>
           config.use_gitignore = (config.tomlConfig.use_gitignore = "true")
    /\ ~TomlSetsUseGitignore =>
           config.use_gitignore = config.vscodeSettings.respectGitignore
    /\ <<"sheafy.toml">> \notin DOMAIN files => config.tomlConfig.null
    /\ ~config.use_gitignore =>
           /\ pc # "gitignore"
           /\ ~gitignoreFilter.on
           /\ JustAssembled =>
                  \A i \in 1..Len(allFilePaths) :
                      (~Ignores(mainFilter, allFilePaths[i])
                          /\ allFilePaths[i][1] # ".git")
                        => SegmentsOf(allFilePaths[i]) = 1

\* C14 witness: sheafy.toml says use_gitignore = false while the host
\* respects .gitignore; .gitignore excludes *.ts, and the project export
\* has assembled a bundle with the segment of sub/b.ts.
C14_Witness ==
    /\ JustAssembled
    /\ cmd = "project"
    /\ config.tomlConfig.use_gitignore = "false"
    /\ config.vscodeSettings.respectGitignore
    /\ ~config.use_gitignore
    /\ Ignores(gitignoreRules, <<"sub", "b.ts">>)
    /\ SegmentsOf(<<"sub", "b.ts">>) = 1

\* The flag falls back to the host setting for a missing sheafy.toml.
C14_WitnessMissingFile ==
    /\ JustAssembled
    /\ <<"sheafy.toml">> \notin DOMAIN files
    /\ config.use_gitignore
    /\ config.vscodeSettings.respectGitignore
    /\ gitignoreFilter.on
    /\ SegmentsOf(<<"sub", "b.ts">>) = 0

-----------------------------------------------------------------------------
(* initConfigCommand *)

\* tomlPath, relative to the workspace root.
TomlPath == <<"sheafy.toml">>

\* defaultConfigContent
DefaultConfigContent == <<"default toml">>

\* The export state, which initConfigCommand does not touch.
exportVars ==
    <<dirs, unreadable, unlistable, specials, gitignoreRules, config, clipboard, run,
      cmd, startPath, dests, cancelled, pc, walkVars, renderVars, sinkVars,
      notes, effects, cancelAt, prev, renderIn, renderOut>>

\* sheafy.initializeSheafyConfig is invoked: it starts fsPromises.access.
InitConfigStart(i) ==
    /\ initPc[i] = "idle"
    /\ initPc' = [initPc EXCEPT ![i] = "access"]
    /\ UNCHANGED <<files, views, exportVars>>

\* access(tomlPath) has completed: the file exists and the command ends
\* with the "already exists" notice, or the catch clause starts writeFile.
InitAccessDone(i) ==
    /\ initPc[i] = "access"
    /\ initPc' = [initPc EXCEPT ![i] =
                      IF TomlPath \in DOMAIN files THEN "exists"
                      ELSE "writeFile"]
    /\ UNCHANGED <<files, views, exportVars>>

\* writeFile(tomlPath, defaultConfigContent) has completed: the "created"
\* notice and openTextDocument follow, or the error is shown.
InitWriteFileDone(i) ==
    /\ initPc[i] = "writeFile"
    /\ \E ok \in BOOLEAN :
         /\ files' = IF ok THEN WriteFile(TomlPath, DefaultConfigContent)
                     ELSE files
         /\ initPc' = [initPc EXCEPT ![i] = IF ok THEN "openDoc" ELSE "failed"]
    /\ UNCHANGED <<views, exportVars>>

\* openTextDocument(tomlPath) has completed.
InitOpenDocDone(i) ==
    /\ initPc[i] = "openDoc"
    /\ \E ok \in BOOLEAN :
         initPc' = [initPc EXCEPT ![i] =
                        IF ok THEN "showDoc" ELSE "createdNotOpened"]
    /\ UNCHANGED <<files, views, exportVars>>

\* showTextDocument(document) has completed.
InitShowDocDone(i) ==
    /\ initPc[i] = "showDoc"
    /\ \E ok \in BOOLEAN :
         /\ views' = IF ok THEN Append(views, files[TomlPath]) ELSE views
         /\ initPc' = [initPc EXCEPT ![i] =
                           IF ok THEN "created" ELSE "createdNotOpened"]
    /\ UNCHANGED <<files, exportVars>>

\* Someone else creates sheafy.toml.
ExternalCreate ==
    /\ TomlPath \notin DOMAIN files
    /\ files' = WriteFile(TomlPath, <<"toml">>)
    /\ UNCHANGED <<views, exportVars, sideVars>>

\* Someone else edits sheafy.toml.
ExternalEdit ==
    /\ TomlPath \in DOMAIN files
    /\ files[TomlPath] # <<"edited toml">>
    /\ files' = WriteFile(TomlPath, <<"edited toml">>)
    /\ UNCHANGED <<views, exportVars, sideVars>>

InitConfigNext ==
    \/ \E i \in Invocations : InitConfigStart(i)
    \/ \E i \in Invocations : InitAccessDone(i)
    \/ \E i \in Invocations : InitWriteFileDone(i)
    \/ \E i \in Invocations : InitOpenDocDone(i)
    \/ \E i \in Invocations : InitShowDocDone(i)
    \/ ExternalCreate
    \/ ExternalEdit

\* The workspaces initConfigCommand starts in: sheafy.toml present or not,
\* no invocation started.
InitConfigInit == InitOf(DefaultingSetups) /\ NoRendering

\* Invocations of initConfigCommand, interleaved with each other and with
\* external changes of sheafy.toml, in workspaces with and without the file.
InitConfigSpec == InitConfigInit /\ [][InitConfigNext]_vars

\* C15 as stated: no invocation of initConfigCommand writes sheafy.toml
\* when the file exists at its write step.
C15_NeverOverwrites ==
    [][\A i \in Invocations :
          (initPc[i] = "writeFile" /\ initPc'[i] = "openDoc")
              => TomlPath \notin DOMAIN files]_vars

\* C15, the part that holds: an invocation whose access finds the file
\* ends there without writing; only an invocation whose access found no
\* file goes on to write.
C15_NoWriteWhenAccessFinds ==
    [][\A i \in Invocations :
          /\ (initPc[i] = "access" /\ initPc'[i] # "access") =>
                 /\ files' = files
                 /\ initPc'[i] = (IF TomlPath \in DOMAIN files THEN "exists"
                                  ELSE "writeFile")
          /\ initPc[i] = "exists" => initPc'[i] = "exists"]_vars

-----------------------------------------------------------------------------
(* The traversal *)

\* getAllFilesRecursive(startPath) has returned to exportContent.
TraversalReturned == pc = "walk" /\ stack = <<>>

\* No path occurs twice in the sequence.
NoDuplicates(paths) ==
    \A i, j \in 1..Len(paths) : paths[i] = paths[j] => i = j

\* C16 as stated: the traversal returns, each once, exactly the regular
\* files reachable from the start directory through listable directories
\* whose names are not pruned; entries that are neither regular files nor
\* directories are not returned.
C16_TraversalReturnsRegularFiles ==
    TraversalReturned =>
        /\ NoDuplicates(allFilePaths)
        /\ Range(allFilePaths) = {f \in DOMAIN files : ReachedByTraversal(f)}

\* C16, what holds: the traversal returns, each once, exactly the reachable
\* entries that are not directories, special entries included.
C16_TraversalReturnsNonDirectories ==
    TraversalReturned =>
        /\ NoDuplicates(allFilePaths)
        /\ Range(allFilePaths) =
               {f \in DOMAIN files \cup specials : ReachedByTraversal(f)}

-----------------------------------------------------------------------------
(* Cancellation and the I/O operations *)

\* The step starts an I/O operation of the running command.
StartsIO == run' = run /\ pc' # pc /\ pc' \in AwaitPcs

\* C17 as stated: once cancellation has been requested the command starts
\* no further I/O operation; the one in flight completes and that is all.
C17_NoIOStartedAfterCancel == [][cancelled => ~StartsIO]_vars

\* C17, what holds: after the request the command starts no directory
\* read, file read or new destination; the only operations it still starts
\* are the writeFile that follows a mkdir in flight and the showTextDocument
\* that follows an openTextDocument in flight.
C17_NoIOStartedAfterCancelButSecondHalf ==
    [][(cancelled /\ StartsIO) =>
          \/ pc = "mkdir" /\ pc' = "writeFile"
          \/ pc = "openDoc" /\ pc' = "showDoc"]_vars

-----------------------------------------------------------------------------
(* Rendering alone *)

\* The templates, file paths and file contents rendered: with and without
\* unknown placeholders, names that hold the text of a placeholder, and
\* contents that hold a placeholder or a replacement pattern.
RenderTemplates ==
    {DefaultTemplate, <<"{content}">>,
     <<"{relpath}", "{relpath}", "{unknown}", "{content}", "{lang}">>}

RenderPaths ==
    {<<"a.ts">>, <<"{content}">>, <<"x.{content}">>, <<"sub", "{lang}">>}

RenderContents ==
    {<<>>, <<"text">>, <<"{relpath}">>, <<"{lang}">>, <<"$&">>,
     <<"a", "$$", "b">>}

\* One file is read and rendered as the file loop of exportContent does.
RenderOne ==
    /\ ~renderOut.done
    /\ renderOut' =
           [done |-> TRUE,
            text |-> Render(renderIn.template,
                            RelPathForFilter(renderIn.filePath),
                            getLanguageId(renderIn.filePath),
                            renderIn.content)]
    /\ UNCHANGED <<fsVars, hostVars, config, run, cmd, startPath, dests,
                   cancelled, pc, walkVars, renderVars, sinkVars, notes,
                   effects, cancelAt, prev, initPc, renderIn>>

RenderNext == RenderOne

\* One file about to be rendered: any template, path and content.
RenderInit ==
    /\ InitOf({s \in DefaultingSetups : s.file.state = "ENOENT"
                                          /\ s.vscodeConfig.respectGitignore})
    /\ renderIn \in [template : RenderTemplates, filePath : RenderPaths,
                     content : RenderContents]
    /\ renderOut = [done |-> FALSE, text |-> <<>>]

\* The rendering of one file, for every template, path and content.
RenderSpec == RenderInit /\ [][RenderNext]_vars

\* The template with each placeholder replaced, all at once, by its value.
Simultaneous(template, relpath, lang, content) ==
    Flatten([i \in 1..Len(template) |->
                CASE template[i] = "{relpath}" -> relpath
                  [] template[i] = "{lang}" -> <<lang>>
                  [] template[i] = "{content}" -> content
                  [] OTHER -> <<template[i]>>])

\* C18 as stated: the rendered segment is the template with {relpath},
\* {lang} and {content} replaced simultaneously and verbatim by the values.
C18_RenderVerbatim ==
    renderOut.done =>
        renderOut.text =
            Simultaneous(renderIn.template, PathText(renderIn.filePath),
                         getLanguageId(renderIn.filePath), renderIn.content)

\* A text without the placeholders substituted after it is inserted and
\* without replacement patterns.
PlainValue(text) ==
    \A i \in 1..Len(text) : text[i] \notin {"{lang}", "{content}", "$&", "$$"}

\* C18, what holds: the segment is the simultaneous substitution when the
\* path and the language hold no later placeholder and the content holds
\* no replacement pattern; other brace text of the template is kept.
C18_RenderVerbatimForPlainValues ==
    (/\ renderOut.done
     /\ PlainValue(PathText(renderIn.filePath))
     /\ PlainValue(<<getLanguageId(renderIn.filePath)>>)
     /\ \A i \in 1..Len(renderIn.content) :
           renderIn.content[i] \notin {"$&", "$$"})
        => C18_RenderVerbatim

\* The traversal from the start folder comes to a directory that cannot be
\* listed.
MeetsUnlistable ==
    /\ cmd # ""
    /\ \E d \in unlistable :
         /\ IsPrefix(startPath, d)
         /\ \A k \in (Len(startPath) + 1)..Len(d) : d[k] \notin PrunedNames

\* C19: when the traversal comes to a directory that cannot be listed, it
\* still returns every file and special entry reachable outside that
\* directory, those listed before it and those listed after it, and
\* nothing from inside it; and unless cancelled the run goes on to assemble
\* the bundle and to attempt every destination.
C19_UnlistableDirectorySkipped ==
    MeetsUnlistable =>
        /\ TraversalReturned =>
              /\ \A f \in DOMAIN files \cup specials :
                    ReachedByTraversal(f) => f \in Range(allFilePaths)
              /\ \A i \in 1..Len(allFilePaths) : \A d \in unlistable :
                    ~IsPrefix(d, allFilePaths[i])
        /\ (pc = "done" /\ cancelAt = NoCancel) =>
              /\ assembled
              /\ Len(results) = Len(dests)
              /\ \A d \in 1..Len(dests) :
                    \E i \in 1..Len(effects) : effects[i].dest = d

\* C19 witness: a project export in a workspace whose folder sub cannot be
\* listed has returned from the traversal with the files listed before sub
\* and the file x.js listed after it, and has completed with its bundle
\* written to a destination.
C19_Witness ==
    /\ cmd = "project"
    /\ <<"sub">> \in unlistable
    /\ allFilePaths = <<(<<".gitignore">>), <<"a.ts">>, <<"sheafy.toml">>,
                        <<"x.js">>>>
    /\ SegmentsOf(<<"x.js">>) = 1
    /\ Completed
    /\ results[1].success

-----------------------------------------------------------------------------
(* Directory creation *)

\* The result pushed when the working directory cannot be created.
MkdirFailedResult ==
    Result("file", FALSE, <<>>, "Failed to create working directory")

\* C20: mkdir is performed only in an attempt on the workingDir destination
\* with a working directory other than the root; when it fails, that
\* attempt performs no writeFile and is over with the one failed result at
\* its place in results, and a run that is not cancelled attempts every
\* destination after it and ends with the report of one result per
\* destination.
C20_MkdirOnlyForWorkingDir ==
    \A i \in 1..Len(effects) :
        effects[i].op = "mkdir" =>
            /\ dests[effects[i].dest] = "workingDir"
            /\ config.working_dir # basePath
            /\ ~effects[i].ok =>
                  /\ \A j \in 1..Len(effects) :
                        effects[j].dest = effects[i].dest => j = i
                  /\ destIdx > effects[i].dest
                  /\ Len(results) = destIdx - 1
                  /\ results[effects[i].dest] = MkdirFailedResult
                  /\ (pc = "done" /\ ~cancelled) =>
                        /\ Len(results) = Len(dests)
                        /\ \A d \in (effects[i].dest + 1)..Len(dests) :
                              \E j \in 1..Len(effects) : effects[j].dest = d
                        /\ notes = handleExportResults(results)

\* C20 witness: with destinations rootDir, workingDir, clipboard and
\* working directory out, the bundle was written in the root without a
\* mkdir, the creation of out failed, no file was written in out, and the
\* clipboard was still written.
C20_Witness ==
    /\ Completed
    /\ dests = <<"rootDir", "workingDir", "clipboard">>
    /\ config.working_dir = <<"out">>
    /\ effects = <<[op |-> "writeFile", dest |-> 1, ok |-> TRUE],
                   [op |-> "mkdir", dest |-> 2, ok |-> FALSE],
                   [op |-> "clipboardWrite", dest |-> 3, ok |-> TRUE]>>
    /\ results[2] = MkdirFailedResult
    /\ <<"out">> \notin dirs
    /\ <<"out", "project_bundle.md">> \notin DOMAIN files
    /\ clipboard = finalOutput

-----------------------------------------------------------------------------
(* Bundles without files *)

\* The bundle made of the prologue and the epilogue alone.
PrologueAndEpilogue ==
    Join(SelectSeq(<<config.prologue, config.epilogue>>, LAMBDA t : t # <<>>),
         <<"\n\n">>)

\* C21: a run that is not cancelled and whose traversal found no file, or
\* whose files were all filtered out, still attempts every requested
\* destination: the bundle is the non-empty ones of prologue and epilogue
\* (the empty text when both are empty), every destination has its I/O and
\* its result, and every destination whose I/O succeeded holds that bundle.
C21_EmptyBundleStillWritten ==
    (Completed /\ SegmentFiles = <<>>) =>
        /\ finalOutput = PrologueAndEpilogue
        /\ Len(results) = Len(dests)
        /\ \A d \in 1..Len(dests) :
              /\ \E i \in 1..Len(effects) : effects[i].dest = d
              /\ results[d].success => Holds(d)

\* C21 witness: the project command in a workspace whose files are all
\* filtered out, prologue and epilogue being empty, has written the empty
\* bundle to the file in the root and to the clipboard.
C21_Witness ==
    /\ Completed
    /\ cmd = "project"
    /\ allFilePaths # <<>>
    /\ SegmentFiles = <<>>
    /\ config.prologue = <<>> /\ config.epilogue = <<>>
    /\ dests = <<"clipboard", "rootDir">>
    /\ \A d \in 1..2 : results[d].success
    /\ clipboard = <<>>
    /\ files[<<"project_bundle.md">>] = <<>>

\* C21 witness: the traversal of the clicked folder found no file, and the
\* clipboard received the prologue and the epilogue.
C21_WitnessNoFileFound ==
    /\ Completed
    /\ cmd = "folder"
    /\ allFilePaths = <<>>
    /\ config.prologue # <<>>
    /\ results[1].success
    /\ clipboard = <<"prologue", "\n\n", "epilogue">>

\* C21 witness: all files filtered out, the working directory created and
\* the prologue and the epilogue written into it and shown in a tab.
C21_WitnessWorkingDir ==
    /\ Completed
    /\ allFilePaths # <<>>
    /\ SegmentFiles = <<>>
    /\ dests = <<"workingDir", "tempTab">>
    /\ config.working_dir = <<"out">>
    /\ \A d \in 1..2 : results[d].success
    /\ files[<<"out", "project_bundle.md">>] = <<"prologue", "\n\n", "epilogue">>
    /\ Last(views) = <<"prologue", "\n\n", "epilogue">>

-----------------------------------------------------------------------------
(* The start folder and the files included *)

\* The files of the sequence fs that lie under the folder S.
Under(S, fs) == {f \in Range(fs) : IsPrefix(S, f)}

\* C22 as stated: of two successive runs in the same workspace, one started
\* at the root and one at a subfolder S, the files included by the run
\* started at S are the files under S included by the run started at the
\* root.
C22_SameInclusion ==
    (assembled /\ prev.valid) =>
        /\ (cmd = "folder" /\ prev.cmd = "project") =>
              Range(SegmentFiles) = Under(startPath, prev.included)
        /\ (cmd = "project" /\ prev.cmd = "folder") =>
              Range(prev.included) = Under(prev.startPath, SegmentFiles)

\* No name of the path of folder S is one the traversal does not descend
\* into.
NotPruned(S) == \A k \in 1..Len(S) : S[k] \notin PrunedNames

\* C22 for start folders the traversal from the root descends into: the
\* statement holds, whatever folderExportPathRelativeToClickedFolder is.
C22_SameInclusionOutsidePrunedFolders ==
    (assembled /\ prev.valid
        /\ NotPruned(IF cmd = "folder" THEN startPath ELSE prev.startPath))
        => C22_SameInclusion

\* The clicked folder sub has a file in the bundle, the run from the root
\* before it had the same file, and paths are shown relative to sub.
C22_WitnessSub ==
    /\ assembled /\ prev.valid
    /\ cmd = "folder" /\ startPath = <<"sub">>
    /\ prev.cmd = "project"
    /\ config.folderExportPathRelativeToClickedFolder
    /\ Range(SegmentFiles) = {<<"sub", "b.ts">>}
    /\ Under(startPath, prev.included) = {<<"sub", "b.ts">>}

-----------------------------------------------------------------------------
(* The reported outcome and cancellation *)

\* Every requested destination has a result and every result is a success.
AllDestinationsWritten ==
    /\ assembled
    /\ dests # <<>>
    /\ Len(results) = Len(dests)
    /\ \A d \in 1..Len(results) : results[d].success

\* The success summary of the results.
SuccessSummary == Notice("info", "successful", results)

\* C23 as stated: a command that ends with the cancellation notice has
\* shown no success and no error notification, and a command at whose end
\* every requested destination was written successfully has shown the
\* success summary and not the cancellation notice.
C23_OutcomeConsistent ==
    (pc = "done") =>
        /\ (CancelNotice \in Range(notes)) =>
              (NoticesOf("successful") = <<>> /\ ErrorNotices = <<>>)
        /\ AllDestinationsWritten =>
              (SuccessSummary \in Range(notes) /\ CancelNotice \notin Range(notes))

\* C23, the part that holds: the cancellation notice is shown only after a
\* cancellation request and is the last notification, no summary of
\* results is shown with it, and a command that was not cancelled and has
\* written every destination ends with the success summary alone.
C23_OutcomeWithoutLateCancel ==
    (pc = "done") =>
        /\ (CancelNotice \in Range(notes)) =>
              /\ cancelled
              /\ Last(notes) = CancelNotice
              /\ NoticesOf("successful") = <<>>
              /\ NoticesOf("encountered errors") = <<>>
        /\ (AllDestinationsWritten /\ ~cancelled) => notes = <<SuccessSummary>>
        /\ (cmd # "" /\ cancelled) => Last(notes) = CancelNotice

\* Cancellation came during the last destination's write: every destination
\* is written and the command ends with the cancellation notice alone.
C23_AllWrittenButCancelShown ==
    /\ pc = "done"
    /\ AllDestinationsWritten
    /\ \A d \in 1..Len(dests) : Holds(d)
    /\ cancelAt.dest = Len(dests)
    /\ notes = <<CancelNotice>>

\* Cancellation came during the stat of a bad start path: the error is
\* shown by exportContent and the command ends with the cancellation notice.
C23_ErrorAndCancelShown ==
    /\ pc = "done"
    /\ cancelAt.pc = "stat"
    /\ BadStartPath
    /\ Len(notes) = 2
    /\ notes[1].level = "error"
    /\ notes[2] = CancelNotice

====
